---- MODULE Spec2Model ----
(***************************************************************************)
(* Model of the two operational scripts of flopods:                        *)
(*   scripts/db-reset.py        - the Reset Sequencer                      *)
(*   scripts/init-localstack.py - the Cloud Resource Provisioner           *)
(* Strings that the code transforms (lower(), strip(), comparison with     *)
(* "yes"/"docker"/"podman") are sequences of one-character strings; names  *)
(* that the code only interpolates into commands are atomic strings.       *)
(***************************************************************************)
EXTENDS Integers, Sequences, FiniteSets, TLC

VARIABLES
    procEnv,        \* os.environ of the process the operator starts
    fileRoot,       \* the .env three directories above the script: [exists, vars]
    fileAlt,        \* the .env two directories above the script: [exists, vars]
    composeExists,  \* service -> whether its compose file exists on disk
    scriptExists,   \* whether scripts/init-localstack.py exists
    world,          \* external systems: "faithful" (modelled) or "arbitrary"
    response,       \* the line the operator types at the prompt (standard input)
    rpc,            \* position of db-reset.py
    renv,           \* os.environ of db-reset.py after load_dotenv
    rcfg,           \* module-level constants of db-reset.py
    log,            \* commands db-reset.py has issued, in order, with done flag
    warnings,       \* warning lines printed so far (set of records)
    exitCode,       \* exit status of the process the operator started
    containers,     \* container runtime: set of existing container names
    volumes,        \* container runtime: volume name -> "absent"|"data"|"empty"
    network,        \* container runtime: whether flopods_network exists
    failed,         \* kinds of runtime command that ended in a runtime error
    preexisting,    \* containers and volumes as they were when the operator started
    ppc,            \* position of init-localstack.py
    penv,           \* os.environ of init-localstack.py after load_dotenv
    pcfg,           \* module-level constants of init-localstack.py
    pcmds,          \* commands init-localstack.py has issued in this run
    skipped,        \* number of "Skipped (may already exist)" lines in this run
    catalogue,      \* emulator: set of <<kind, name>> resources that exist
    listing,        \* what the verification listings of this run printed
    runs,           \* completed runs of init-localstack.py: their final records
    mode            \* "reset": operator runs db-reset.py; "init": init-localstack.py

vars == << procEnv, fileRoot, fileAlt, composeExists, scriptExists, world,
           response, rpc, renv, rcfg, log, warnings, exitCode, containers,
           volumes, network, failed, preexisting, ppc, penv, pcfg, pcmds, skipped, catalogue,
           listing, runs, mode >>

(***************************************************************************)
(* Bounds of the model.                                                    *)
(***************************************************************************)
MaxPad == 1      \* longest run of whitespace put around an input word
MaxRuns == 2     \* standalone runs of the provisioner in succession

(***************************************************************************)
(* Strings: str.lower() and str.strip() as Python computes them (ASCII).   *)
(***************************************************************************)
LowerAlpha == << "a","b","c","d","e","f","g","h","i","j","k","l","m",
                 "n","o","p","q","r","s","t","u","v","w","x","y","z" >>
UpperAlpha == << "A","B","C","D","E","F","G","H","I","J","K","L","M",
                 "N","O","P","Q","R","S","T","U","V","W","X","Y","Z" >>
Whitespace == { " ", "\t", "\n" }

lower_char(c) ==
    IF \E i \in 1..26 : UpperAlpha[i] = c
    THEN LowerAlpha[CHOOSE i \in 1..26 : UpperAlpha[i] = c]
    ELSE c

upper_char(c) ==
    IF \E i \in 1..26 : LowerAlpha[i] = c
    THEN UpperAlpha[CHOOSE i \in 1..26 : LowerAlpha[i] = c]
    ELSE c

lower(s) == [i \in 1..Len(s) |-> lower_char(s[i])]

RECURSIVE lstrip(_)
lstrip(s) ==
    IF s # << >> /\ Head(s) \in Whitespace THEN lstrip(Tail(s)) ELSE s

RECURSIVE rstrip(_)
rstrip(s) ==
    IF s # << >> /\ s[Len(s)] \in Whitespace
    THEN rstrip(SubSeq(s, 1, Len(s) - 1))
    ELSE s

strip(s) == rstrip(lstrip(s))

docker == << "d","o","c","k","e","r" >>
podman == << "p","o","d","m","a","n" >>
yes    == << "y","e","s" >>

(***************************************************************************)
(* Input words: case variants and whitespace padding of a word.            *)
(***************************************************************************)
upper(s) == [i \in 1..Len(s) |-> upper_char(s[i])]
capitalize(s) == [i \in 1..Len(s) |-> IF i = 1 THEN upper_char(s[i]) ELSE s[i]]
AllCases(s) ==
    { [i \in 1..Len(s) |-> IF i \in U THEN upper_char(s[i]) ELSE s[i]] :
        U \in SUBSET (1..Len(s)) }
SomeCases(s) == { s, upper(s), capitalize(s) }

RECURSIVE Pads(_)
Pads(n) ==
    IF n = 0 THEN { << >> }
    ELSE Pads(n - 1) \cup
         { << c >> \o p : c \in { " ", "\n" }, p \in { q \in Pads(n - 1) : Len(q) = n - 1 } }

Padded(S) == { l \o s \o r : l \in Pads(MaxPad), s \in S, r \in Pads(MaxPad) }

(***************************************************************************)
(* Configuration: os.environ and the .env file are partial maps from       *)
(* variable names to values (a function whose DOMAIN is the set of defined *)
(* names).  A file is [exists, vars].                                      *)
(***************************************************************************)
getenv(env, key, default) == IF key \in DOMAIN env THEN env[key] ELSE default

\* Lines 9-15 of both scripts: the root candidate if it exists, else the other.
env_file == IF fileRoot.exists THEN fileRoot ELSE fileAlt

\* load_dotenv(path) of python-dotenv with its default override=False: a
\* variable the file defines is set only if os.environ does not define it;
\* a path that is not a file loads nothing.
load_dotenv_override(file, env) ==
    IF ~file.exists THEN env
    ELSE [k \in DOMAIN env \cup DOMAIN file.vars |->
            IF k \in DOMAIN file.vars THEN file.vars[k] ELSE env[k]]

load_dotenv(file, env) ==
    IF ~file.exists THEN env
    ELSE [k \in DOMAIN env \cup DOMAIN file.vars |->
            IF k \in DOMAIN env THEN env[k] ELSE file.vars[k]]

\* Line 20 of both scripts.
raw_runtime(env) == strip(lower(getenv(env, "CONTAINER_RUNTIME", docker)))

\* db-reset.py lines 20-22.
reset_runtime(env) ==
    IF raw_runtime(env) \notin { docker, podman } THEN docker ELSE raw_runtime(env)

init_runtime_no_strip(env) ==
    LET rt == lower(getenv(env, "CONTAINER_RUNTIME", docker))
    IN  IF rt \notin { docker, podman } THEN docker ELSE rt

\* init-localstack.py lines 20 and 47-50.
init_runtime(env) ==
    IF raw_runtime(env) \notin { docker, podman } THEN docker ELSE raw_runtime(env)

\* db-reset.py lines 20-35: module-level constants.
ResetConfig(env) ==
    [ CONTAINER_RUNTIME    |-> reset_runtime(env),
      DB_CONTAINER         |-> getenv(env, "DB_CONTAINER_NAME", "flopods-db"),
      LOCALSTACK_CONTAINER |-> getenv(env, "LOCALSTACK_CONTAINER_NAME", "localstack"),
      REDIS_CONTAINER      |-> getenv(env, "REDIS_CONTAINER_NAME", "flopods-redis"),
      DB_VOLUME            |-> "flopods_db_data",
      LOCALSTACK_VOLUME    |-> "localstack-data",
      REDIS_VOLUME         |-> "redis-data",
      NETWORK_NAME         |-> "flopods_network" ]

\* init-localstack.py lines 20-50: module-level constants.
InitConfig(env) ==
    [ CONTAINER_RUNTIME         |-> init_runtime(env),
      LOCALSTACK_CONTAINER_NAME |-> getenv(env, "LOCALSTACK_CONTAINER_NAME", "localstack"),
      AWS_REGION                |-> getenv(env, "AWS_DYNAMODB_REGION", "ap-south-1"),
      DYNAMODB_POD_TABLE        |-> getenv(env, "AWS_DYNAMODB_POD_TABLE", "flopods-pods-dev"),
      DYNAMODB_SESSION_TABLE    |-> getenv(env, "AWS_DYNAMODB_SESSION_TABLE", "flopods-sessions-dev"),
      DYNAMODB_EXECUTION_TABLE  |-> getenv(env, "AWS_DYNAMODB_EXECUTION_TABLE", "flopods-executions-dev"),
      DYNAMODB_CACHE_TABLE      |-> getenv(env, "AWS_DYNAMODB_CACHE_TABLE", "flopods-cache-dev"),
      DYNAMODB_CONTEXT_TABLE    |-> getenv(env, "AWS_DYNAMODB_CONTEXT_TABLE", "flopods-context-dev"),
      S3_DOCUMENTS_BUCKET       |-> getenv(env, "DOCUMENT_S3_BUCKET", "flopods-documents-dev"),
      S3_VECTORS_BUCKET         |-> getenv(env, "DOCUMENT_VECTOR_S3_BUCKET", "flopods-vectors-dev"),
      S3_FILES_BUCKET           |-> getenv(env, "AWS_S3_BUCKET_NAME", "flopods-files-dev"),
      SES_NOREPLY_EMAIL         |-> getenv(env, "AWS_SES_NO_REPLY_EMAIL", "noreply@flopods.local"),
      SES_SUPPORT_EMAIL         |-> getenv(env, "AWS_SES_SUPPORT_EMAIL", "support@flopods.local") ]

NoConfig == [ CONTAINER_RUNTIME |-> << >> ]

Warning(by, kind, subject) == [ by |-> by, kind |-> kind, subject |-> subject ]

(***************************************************************************)
(* init-localstack.py                                                      *)
(***************************************************************************)
\* One exec into the emulator container (the f-strings of lines 72-147).
Exec(c, op, kind, name, attrs) ==
    [ rt |-> c.CONTAINER_RUNTIME, container |-> c.LOCALSTACK_CONTAINER_NAME,
      op |-> op, kind |-> kind, name |-> name, attrs |-> attrs,
      region |-> c.AWS_REGION ]

TableAttrs == "pk:S:HASH,sk:S:RANGE,PAY_PER_REQUEST"

\* main(), lines 70-124: the twelve run(...) calls, in order.
Creations(c) ==
    << Exec(c, "s3 mb", "bucket", c.S3_DOCUMENTS_BUCKET, ""),
       Exec(c, "s3 mb", "bucket", c.S3_VECTORS_BUCKET, ""),
       Exec(c, "s3 mb", "bucket", c.S3_FILES_BUCKET, ""),
       Exec(c, "dynamodb create-table", "table", c.DYNAMODB_POD_TABLE, TableAttrs),
       Exec(c, "dynamodb create-table", "table", c.DYNAMODB_EXECUTION_TABLE, TableAttrs),
       Exec(c, "dynamodb create-table", "table", c.DYNAMODB_CONTEXT_TABLE, TableAttrs),
       Exec(c, "dynamodb create-table", "table", c.DYNAMODB_SESSION_TABLE, TableAttrs),
       Exec(c, "dynamodb create-table", "table", c.DYNAMODB_CACHE_TABLE, TableAttrs),
       Exec(c, "ses verify-email-identity", "email", c.SES_NOREPLY_EMAIL, ""),
       Exec(c, "ses verify-email-identity", "email", c.SES_SUPPORT_EMAIL, ""),
       Exec(c, "sqs create-queue", "queue", "flopods-document-processing.fifo",
            "FifoQueue=true,ContentBasedDeduplication=true,VisibilityTimeout=300,MessageRetentionPeriod=1209600"),
       Exec(c, "sqs create-queue", "queue", "flopods-document-processing-dlq.fifo",
            "FifoQueue=true,MessageRetentionPeriod=1209600") >>

\* main(), lines 132-147: the three listings, in order.
Listings(c) ==
    << Exec(c, "s3 ls", "bucket", "", ""),
       Exec(c, "dynamodb list-tables", "table", "", ""),
       Exec(c, "sqs list-queues", "queue", "", "") >>

Program(c) == Creations(c) \o Listings(c)

At(stage, i) == [ at |-> stage, i |-> i ]

\* Module level of init-localstack.py, lines 8-50.
InitLoadConfig ==
    /\ ppc.at = "load"
    /\ penv' = load_dotenv(env_file, penv)
    /\ pcfg' = InitConfig(penv')
    /\ warnings' =
         IF raw_runtime(penv') \notin { docker, podman }
         THEN warnings \cup { Warning("init-localstack", "invalid runtime", "") }
         ELSE warnings
    /\ ppc' = At("main", 1)
    /\ UNCHANGED << procEnv, fileRoot, fileAlt, composeExists, scriptExists,
                    world, response, rpc, renv, rcfg, log, exitCode,
                    containers, volumes, network, failed, preexisting, pcmds, skipped, catalogue,
                    listing, runs, mode >>

\* What the create command does in the emulator.  In the faithful world the
\* emulator is create-if-missing: the command fails with no effect if the
\* resource exists and creates it otherwise.  In the arbitrary world any
\* command may succeed or fail and the emulator's contents are not modelled.
CreateOutcomes(cmd) ==
    IF world = "faithful"
    THEN { << kind, cmd.name >> \notin catalogue : kind \in { cmd.kind } }
    ELSE BOOLEAN

run_checked(ok) ==
    [ raised |-> ~ok, line |-> IF ok THEN "Done" ELSE "Skipped (may already exist)" ]

\* run(), lines 52-60: subprocess.run without check, so nothing is raised on
\* a non-zero return code; "Done" or "Skipped" is printed.
run(ok) ==
    [ raised |-> FALSE, line |-> IF ok THEN "Done" ELSE "Skipped (may already exist)" ]

\* One run(...) call of main(): lines 72-124.
Create ==
    /\ ppc.at = "main"
    /\ ppc.i \in 1..Len(Creations(pcfg))
    /\ LET cmd == Program(pcfg)[ppc.i]
       IN  \E ok \in CreateOutcomes(cmd) :
             /\ pcmds' = Append(pcmds, cmd)
             /\ catalogue' = IF ok /\ world = "faithful"
                             THEN catalogue \cup { << cmd.kind, cmd.name >> }
                             ELSE catalogue
             /\ skipped' = IF run(ok).line = "Done" THEN skipped ELSE skipped + 1
             /\ ppc' = IF run(ok).raised THEN At("crashed", ppc.i)
                                         ELSE At("main", ppc.i + 1)
    /\ UNCHANGED << procEnv, fileRoot, fileAlt, composeExists, scriptExists,
                    world, response, rpc, renv, rcfg, log, warnings, exitCode,
                    containers, volumes, network, failed, preexisting, penv, pcfg, listing, runs, mode >>

\* One verification listing of main(): lines 132-147 (return code ignored).
List ==
    /\ ppc.at = "main"
    /\ ppc.i \in (Len(Creations(pcfg)) + 1)..Len(Program(pcfg))
    /\ LET cmd == Program(pcfg)[ppc.i]
       IN  /\ pcmds' = Append(pcmds, cmd)
           /\ listing' = Append(listing, { r \in catalogue : r[1] = cmd.kind })
    /\ ppc' = At("main", ppc.i + 1)
    /\ UNCHANGED << procEnv, fileRoot, fileAlt, composeExists, scriptExists,
                    world, response, rpc, renv, rcfg, log, warnings, exitCode,
                    containers, volumes, network, failed, preexisting, penv, pcfg, skipped, catalogue,
                    runs, mode >>

\* Line 149 and the normal return of main(): the process ends with status 0.
InitComplete ==
    /\ ppc.at = "main"
    /\ ppc.i = Len(Program(pcfg)) + 1
    /\ ppc' = At("done", 0)
    /\ runs' = Append(runs, [ catalogue |-> catalogue, listing |-> listing,
                              pcmds |-> pcmds ])
    /\ exitCode' = IF mode = "init" THEN 0 ELSE exitCode
    /\ UNCHANGED << procEnv, fileRoot, fileAlt, composeExists, scriptExists,
                    world, response, rpc, renv, rcfg, log, warnings,
                    containers, volumes, network, failed, preexisting, penv, pcfg, pcmds, skipped,
                    catalogue, listing, mode >>

\* The operator runs init-localstack.py on its own (lines 151-152), again
\* after a previous run has ended.
StartInit ==
    /\ mode = "init"
    /\ ppc.at \in { "idle", "done" }
    /\ Len(runs) < MaxRuns
    /\ ppc' = At("load", 0)
    /\ penv' = procEnv
    /\ pcfg' = NoConfig
    /\ pcmds' = << >>
    /\ skipped' = 0
    /\ listing' = << >>
    /\ exitCode' = -1
    /\ UNCHANGED << procEnv, fileRoot, fileAlt, composeExists, scriptExists,
                    world, response, rpc, renv, rcfg, log, warnings,
                    containers, volumes, network, failed, preexisting, catalogue, runs, mode >>

(***************************************************************************)
(* db-reset.py                                                             *)
(***************************************************************************)
SettleDelay == 10

\* COMPOSE_FILES, lines 39-43, in insertion order.
Services == << "database", "localstack", "redis" >>

\* What the compose definition of a service creates.  The definitions are
\* not part of the scripts; the names are those the scripts assume (the
\* defaults of lines 25-27, the volumes of lines 30-32).
ComposeContainer(service) ==
    CASE service = "database"   -> "flopods-db"
      [] service = "localstack" -> "localstack"
      [] service = "redis"      -> "flopods-redis"

ComposeVolume(service) ==
    CASE service = "database"   -> "flopods_db_data"
      [] service = "localstack" -> "localstack-data"
      [] service = "redis"      -> "redis-data"

VolumeNames == { ComposeVolume(Services[i]) : i \in 1..Len(Services) }
DefaultContainers == { ComposeContainer(Services[i]) : i \in 1..Len(Services) }

\* The three containers and the three volumes main() walks through, in order.
ContainerArgs(c) == << c.DB_CONTAINER, c.LOCALSTACK_CONTAINER, c.REDIS_CONTAINER >>

VolumeArgs_repeated(c) == << c.DB_VOLUME, c.DB_VOLUME, c.REDIS_VOLUME >>

VolumeArgs(c) == << c.DB_VOLUME, c.LOCALSTACK_VOLUME, c.REDIS_VOLUME >>

\* A command line handed to run(): "{CONTAINER_RUNTIME} <op> <target>".
Cmd(op, target) ==
    [ rt |-> rcfg.CONTAINER_RUNTIME, op |-> op, target |-> target,
      secs |-> 0, done |-> FALSE ]

Idle == IF log = << >> THEN TRUE ELSE log[Len(log)].done

StagesSwapped == << "stop", "volume rm", "rm", "network rm", "compose up",
                    "sleep", "init", "complete" >>

\* The phases of main(), lines 109-170, in program order.
StagesInOrder == << "stop", "rm", "volume rm", "network rm", "compose up",
                    "sleep", "init", "complete" >>
StageLen(stage) ==
    IF stage \in { "stop", "rm", "volume rm", "compose up" } THEN Len(Services) ELSE 1
StageIndex(stage) == CHOOSE k \in 1..Len(StagesInOrder) : StagesInOrder[k] = stage

\* The statement after the current one in main(), lines 112-153.
After(p) ==
    IF p.i < StageLen(p.at) THEN At(p.at, p.i + 1)
    ELSE At(StagesInOrder[StageIndex(p.at) + 1], 1)

\* Module level of db-reset.py, lines 8-43.  No warning is printed here.
ResetLoadConfig ==
    /\ mode = "reset"
    /\ rpc.at = "load"
    /\ renv' = load_dotenv(env_file, procEnv)
    /\ rcfg' = ResetConfig(renv')
    /\ rpc' = At("prompt", 0)
    /\ UNCHANGED << procEnv, fileRoot, fileAlt, composeExists, scriptExists,
                    world, response, log, warnings, exitCode, containers,
                    volumes, network, failed, preexisting, ppc, penv, pcfg, pcmds, skipped,
                    catalogue, listing, runs, mode >>

confirmed_exact(r) == r = yes

confirmed_stripped(r) == strip(lower(r)) = yes

\* Line 105: the test of the confirmation gate.
confirmed(r) == lower(r) = yes

\* Input words the operator may type.
Responses ==
    Padded(SomeCases(yes))
      \cup { << "y", "E", "s" >>, << >>, << "y" >>, << "n", "o" >>,
             << "y", "e", "s", "s" >> }

\* main(), lines 104-107: the confirmation gate.
Confirm ==
    /\ rpc.at = "prompt"
    /\ IF ~confirmed(response)
       THEN /\ rpc' = At("exited", 0)
            /\ exitCode' = 0
       ELSE /\ rpc' = At("stop", 1)
            /\ UNCHANGED exitCode
    /\ UNCHANGED << response, procEnv, fileRoot, fileAlt, composeExists, scriptExists,
                    world, renv, rcfg, log, warnings, containers, volumes,
                    network, failed, preexisting, ppc, penv, pcfg, pcmds, skipped, catalogue,
                    listing, runs, mode >>

IssueLeaves ==
    UNCHANGED << procEnv, fileRoot, fileAlt, composeExists, scriptExists,
                 world, response, rpc, renv, rcfg, warnings, exitCode,
                 containers, volumes, network, failed, preexisting, ppc, penv, pcfg, pcmds,
                 skipped, catalogue, listing, runs, mode >>

\* stop_container, lines 57-60, called at lines 112-114.
StopContainer ==
    /\ rpc.at = "stop" /\ Idle
    /\ log' = Append(log, Cmd("stop", ContainerArgs(rcfg)[rpc.i]))
    /\ IssueLeaves

\* remove_container, lines 63-66, called at lines 119-121.
RemoveContainer ==
    /\ rpc.at = "rm" /\ Idle
    /\ log' = Append(log, Cmd("rm", ContainerArgs(rcfg)[rpc.i]))
    /\ IssueLeaves

\* remove_volume, lines 69-72, called at lines 126-128.
RemoveVolume ==
    /\ rpc.at = "volume rm" /\ Idle
    /\ log' = Append(log, Cmd("volume rm", VolumeArgs(rcfg)[rpc.i]))
    /\ IssueLeaves

\* prune_network, lines 75-78, called at line 133.
PruneNetwork ==
    /\ rpc.at = "network rm" /\ Idle
    /\ log' = Append(log, Cmd("network rm", rcfg.NETWORK_NAME))
    /\ IssueLeaves

ComposeUp_unchecked ==
    /\ rpc.at = "compose up" /\ Idle
    /\ log' = Append(log, Cmd("compose up", Services[rpc.i]))
    /\ IssueLeaves

\* Lines 140-143: the compose file exists.
ComposeUp ==
    /\ rpc.at = "compose up" /\ Idle
    /\ composeExists[Services[rpc.i]]
    /\ log' = Append(log, Cmd("compose up", Services[rpc.i]))
    /\ IssueLeaves

\* Lines 144-145: the compose file is missing.
SkipCompose ==
    /\ rpc.at = "compose up" /\ Idle
    /\ ~composeExists[Services[rpc.i]]
    /\ warnings' = warnings \cup { Warning("db-reset", "skipping", Services[rpc.i]) }
    /\ rpc' = After(rpc)
    /\ UNCHANGED << procEnv, fileRoot, fileAlt, composeExists, scriptExists,
                    world, response, renv, rcfg, log, exitCode, containers,
                    volumes, network, failed, preexisting, ppc, penv, pcfg, pcmds, skipped,
                    catalogue, listing, runs, mode >>

\* What the container runtime can answer to a command: "ok", "absent" (the
\* target does not exist) or "error" (any other failure, nothing changes).
\* In the arbitrary world any answer is possible and the runtime's state
\* (containers, volumes, network, failed) is not modelled.
RuntimeOutcomes(cmd) ==
    IF world = "arbitrary" THEN { "ok", "absent", "error" } ELSE
    CASE cmd.op \in { "stop", "rm" } ->
            IF cmd.target \in containers THEN { "ok", "error" } ELSE { "absent" }
      [] cmd.op = "volume rm" ->
            IF cmd.target \in VolumeNames /\ volumes[cmd.target] # "absent"
            THEN { "ok", "error" } ELSE { "absent" }
      [] cmd.op = "network rm" ->
            IF network THEN { "ok", "error" } ELSE { "absent" }
      [] cmd.op = "compose up" -> { "ok", "error" }

\* The exit status of the shell line: "... 2>/dev/null || true" (lines 60,
\* 66, 72, 78) is always 0; line 143 has the status of compose itself.
shell_status(op, outcome) ==
    IF op = "compose up" /\ outcome # "ok" THEN 1 ELSE 0

run_reset_checked(status) == [ raised |-> status # 0 ]

\* run(), lines 46-54: subprocess.run without check; main() ignores the result.
run_reset(status) == [ raised |-> FALSE ]

\* subprocess.run returns: lines 50-54.  The runtime has acted on the command.
CommandReturns ==
    /\ ~Idle
    /\ rpc.at \in { "stop", "rm", "volume rm", "network rm", "compose up" }
    /\ LET cmd == log[Len(log)]
       IN  \E outcome \in RuntimeOutcomes(cmd) :
             /\ containers' =
                  CASE world = "arbitrary" -> containers
                    [] outcome = "ok" /\ cmd.op = "rm" -> containers \ { cmd.target }
                    [] outcome = "ok" /\ cmd.op = "compose up" ->
                          containers \cup { ComposeContainer(cmd.target) }
                    [] OTHER -> containers
             /\ volumes' =
                  CASE world = "arbitrary" -> volumes
                    [] outcome = "ok" /\ cmd.op = "volume rm" ->
                          [ volumes EXCEPT ![cmd.target] = "absent" ]
                    [] outcome = "ok" /\ cmd.op = "compose up"
                         /\ volumes[ComposeVolume(cmd.target)] = "absent" ->
                          [ volumes EXCEPT ![ComposeVolume(cmd.target)] = "empty" ]
                    [] OTHER -> volumes
             /\ network' =
                  CASE world = "arbitrary" -> network
                    [] outcome = "ok" /\ cmd.op = "network rm" -> FALSE
                    [] outcome = "ok" /\ cmd.op = "compose up" -> TRUE
                    [] OTHER -> network
             /\ failed' = IF world = "faithful" /\ outcome = "error"
                          THEN failed \cup { cmd.op } ELSE failed
             /\ log' = [ log EXCEPT ![Len(log)].done = TRUE ]
             /\ rpc' = IF run_reset(shell_status(cmd.op, outcome)).raised
                       THEN At("crashed", 0) ELSE After(rpc)
             /\ exitCode' = IF run_reset(shell_status(cmd.op, outcome)).raised
                            THEN 1 ELSE exitCode
    /\ UNCHANGED << procEnv, fileRoot, fileAlt, composeExists, scriptExists,
                    world, response, renv, rcfg, warnings, preexisting, ppc,
                    penv, pcfg, pcmds, skipped, catalogue, listing, runs, mode >>

\* Lines 148-150: time.sleep(10).
Sleep ==
    /\ rpc.at = "sleep" /\ Idle
    /\ log' = Append(log, [ rt |-> << >>, op |-> "sleep", target |-> "",
                            secs |-> SettleDelay, done |-> TRUE ])
    /\ rpc' = After(rpc)
    /\ UNCHANGED << procEnv, fileRoot, fileAlt, composeExists, scriptExists,
                    world, response, renv, rcfg, warnings, exitCode,
                    containers, volumes, network, failed, preexisting, ppc, penv, pcfg, pcmds,
                    skipped, catalogue, listing, runs, mode >>

\* run_init_localstack, lines 81-86: the script exists and is run as a child
\* process, which inherits os.environ as load_dotenv left it.
RunInitLocalstack ==
    /\ rpc.at = "init" /\ Idle
    /\ scriptExists
    /\ log' = Append(log, [ rt |-> << >>, op |-> "init-localstack.py", target |-> "",
                            secs |-> 0, done |-> FALSE ])
    /\ ppc' = At("load", 0)
    /\ penv' = renv
    /\ pcfg' = NoConfig
    /\ pcmds' = << >>
    /\ skipped' = 0
    /\ listing' = << >>
    /\ UNCHANGED << procEnv, fileRoot, fileAlt, composeExists, scriptExists,
                    world, response, rpc, renv, rcfg, warnings, exitCode,
                    containers, volumes, network, failed, preexisting, catalogue, runs, mode >>

\* run_init_localstack, lines 87-88: the script is missing.
InitScriptMissing ==
    /\ rpc.at = "init" /\ Idle
    /\ ~scriptExists
    /\ warnings' = warnings \cup { Warning("db-reset", "not found", "init-localstack.py") }
    /\ rpc' = After(rpc)
    /\ UNCHANGED << procEnv, fileRoot, fileAlt, composeExists, scriptExists,
                    world, response, renv, rcfg, log, exitCode, containers,
                    volumes, network, failed, preexisting, ppc, penv, pcfg, pcmds, skipped,
                    catalogue, listing, runs, mode >>

\* Line 86 returns: the child has ended (its status is not looked at).
InitReturns ==
    /\ rpc.at = "init" /\ ~Idle
    /\ ppc.at \in { "done", "crashed" }
    /\ log' = [ log EXCEPT ![Len(log)].done = TRUE ]
    /\ rpc' = After(rpc)
    /\ UNCHANGED << procEnv, fileRoot, fileAlt, composeExists, scriptExists,
                    world, response, renv, rcfg, warnings, exitCode,
                    containers, volumes, network, failed, preexisting, ppc, penv, pcfg, pcmds,
                    skipped, catalogue, listing, runs, mode >>

\* Lines 155-170 and the normal return of main(): exit status 0.
Complete ==
    /\ rpc.at = "complete"
    /\ rpc' = At("exited", 0)
    /\ exitCode' = 0
    /\ UNCHANGED << procEnv, fileRoot, fileAlt, composeExists, scriptExists,
                    world, response, renv, rcfg, log, warnings, containers,
                    volumes, network, failed, preexisting, ppc, penv, pcfg, pcmds, skipped,
                    catalogue, listing, runs, mode >>

(***************************************************************************)
(* Inputs and specifications.                                              *)
(***************************************************************************)
EmptyEnv == [ k \in { } |-> "" ]
NoFile == [ exists |-> FALSE, vars |-> EmptyEnv ]
File(v) == [ exists |-> TRUE, vars |-> v ]

\* A partial map from at most one value per variable: S is a set of
\* << name, value >> pairs with distinct names.
EnvOf(S) == [ k \in { p[1] : p \in S } |-> (CHOOSE p \in S : p[1] = k)[2] ]

Quiescent ==
    /\ renv = EmptyEnv /\ rcfg = NoConfig
    /\ log = << >> /\ warnings = { } /\ exitCode = -1
    /\ failed = { }
    /\ ppc = At("idle", 0)
    /\ penv = EmptyEnv /\ pcfg = NoConfig
    /\ pcmds = << >> /\ skipped = 0 /\ listing = << >> /\ runs = << >>

ComposeSubsets == [ { Services[i] : i \in 1..Len(Services) } -> BOOLEAN ]

\* The operator runs db-reset.py; nothing is assumed of the container
\* runtime and the emulator.
Init ==
    /\ mode = "reset"
    /\ rpc = At("load", 0)
    /\ procEnv \in { EmptyEnv,
                     EnvOf({ << "CONTAINER_RUNTIME", << " " >> \o upper(podman) >> }),
                     EnvOf({ << "LOCALSTACK_CONTAINER_NAME", "ls-env" >> }) }
    /\ fileRoot \in { NoFile,
                      File(EnvOf({ << "CONTAINER_RUNTIME", << "r", "u", "n", "c" >> >>,
                                   << "LOCALSTACK_CONTAINER_NAME", "ls-root" >> })) }
    /\ fileAlt \in { NoFile,
                     File(EnvOf({ << "CONTAINER_RUNTIME", capitalize(podman) >> })) }
    /\ composeExists \in ComposeSubsets
    /\ scriptExists \in BOOLEAN
    /\ response \in Responses
    /\ world = "arbitrary"
    /\ containers = { }
    /\ volumes = [ v \in VolumeNames |-> "absent" ]
    /\ network = FALSE
    /\ preexisting = [ containers |-> containers, volumes |-> volumes ]
    /\ catalogue = { }
    /\ Quiescent

\* The operator runs db-reset.py against a container runtime and an
\* emulator that are modelled.
InitE2E ==
    /\ mode = "reset"
    /\ rpc = At("load", 0)
    /\ procEnv = EmptyEnv
    /\ fileRoot = NoFile
    /\ fileAlt = NoFile
    /\ composeExists \in ComposeSubsets
    /\ scriptExists \in BOOLEAN
    /\ response \in { yes, << "n", "o" >> }
    /\ world = "faithful"
    /\ \/ containers = { } /\ volumes = [ v \in VolumeNames |-> "absent" ]
       \/ containers = { } /\ volumes = [ v \in VolumeNames |-> "data" ]
       \/ containers = DefaultContainers /\ volumes = [ v \in VolumeNames |-> "data" ]
    /\ network = (containers # { })
    /\ preexisting = [ containers |-> containers, volumes |-> volumes ]
    /\ catalogue = { }
    /\ Quiescent

\* Values of CONTAINER_RUNTIME the operator may have set.
RuntimeValues ==
    Padded({ docker, upper(podman), capitalize(docker),
             << "r", "u", "n", "c" >>, << >> })

\* The operator runs init-localstack.py on its own, MaxRuns times in
\* succession, against a create-if-missing emulator.
InitStandalone ==
    /\ mode = "init"
    /\ rpc = At("idle", 0)
    /\ \E rt \in { { } } \cup { { << "CONTAINER_RUNTIME", v >> } : v \in RuntimeValues },
          tb \in { { }, { << "AWS_DYNAMODB_POD_TABLE", "pods-env" >> } } :
         procEnv = EnvOf(rt \cup tb)
    /\ fileRoot \in { NoFile,
                      File(EnvOf({ << "AWS_DYNAMODB_POD_TABLE", "pods-root" >> })),
                      File(EnvOf({ << "AWS_DYNAMODB_POD_TABLE", "pods-root" >>,
                                   << "CONTAINER_RUNTIME", podman >> })) }
    /\ fileAlt \in { NoFile,
                     File(EnvOf({ << "AWS_DYNAMODB_POD_TABLE", "pods-alt" >>,
                                  << "AWS_DYNAMODB_CACHE_TABLE", "pods-alt" >> })) }
    /\ composeExists = [ x \in { Services[i] : i \in 1..Len(Services) } |-> TRUE ]
    /\ scriptExists = TRUE
    /\ response = << >>
    /\ world = "faithful"
    /\ containers = DefaultContainers
    /\ volumes = [ v \in VolumeNames |-> "data" ]
    /\ network = TRUE
    /\ catalogue \in { { }, { << "table", "flopods-pods-dev" >>,
                              << "bucket", "flopods-files-dev" >> } }
    /\ preexisting = [ containers |-> containers, volumes |-> volumes ]
    /\ Quiescent

Next ==
    \/ ResetLoadConfig
    \/ Confirm
    \/ StopContainer
    \/ RemoveContainer
    \/ RemoveVolume
    \/ PruneNetwork
    \/ ComposeUp
    \/ SkipCompose
    \/ CommandReturns
    \/ Sleep
    \/ RunInitLocalstack
    \/ InitScriptMissing
    \/ InitLoadConfig
    \/ Create
    \/ List
    \/ InitComplete
    \/ InitReturns
    \/ Complete

Spec == Init /\ [][Next]_vars

SpecE2E == InitE2E /\ [][Next]_vars

NextStandalone ==
    \/ StartInit
    \/ InitLoadConfig
    \/ Create
    \/ List
    \/ InitComplete

SpecInit == InitStandalone /\ [][NextStandalone]_vars

(***************************************************************************)
(* Vocabulary of the properties.                                           *)
(***************************************************************************)
\* "yes" in any letter case.
AffirmativeWords == AllCases(yes)

PastGate == rpc.at \notin { "idle", "load", "prompt" }
Cancelled == rpc.at = "exited" /\ log = << >>
Proceeded == PastGate /\ ~Cancelled
Finished == rpc.at = "exited" /\ log # << >>

Phase(op) ==
    CASE op = "stop" -> 1
      [] op = "rm" -> 2
      [] op = "volume rm" -> 3
      [] op = "network rm" -> 4
      [] op = "compose up" -> 5
      [] op = "sleep" -> 6
      [] op = "init-localstack.py" -> 7

Line(op, target) == [ op |-> op, target |-> target ]
LinesOf(l) == [ i \in 1..Len(l) |-> Line(l[i].op, l[i].target) ]
OpsOf(l) == [ i \in 1..Len(l) |-> l[i].op ]

FileExists(service) == composeExists[service]
ExistingServices == SelectSeq(Services, FileExists)
MissingServices == { Services[i] : i \in { k \in 1..Len(Services) : ~composeExists[Services[k]] } }

TheContainers == { rcfg.DB_CONTAINER, rcfg.LOCALSTACK_CONTAINER, rcfg.REDIS_CONTAINER }
TheVolumes == { "flopods_db_data", "localstack-data", "redis-data" }

\* Every command the sequencer has to issue, given what is on disk.
Required ==
    { Line("stop", t) : t \in TheContainers }
      \cup { Line("rm", t) : t \in TheContainers }
      \cup { Line("volume rm", v) : v \in TheVolumes }
      \cup { Line("network rm", "flopods_network") }
      \cup { Line("compose up", ExistingServices[i]) : i \in 1..Len(ExistingServices) }
      \cup { Line("sleep", "") }

\* The one sequence of commands of a confirmed reset.
ExpectedLog ==
    << Line("stop", rcfg.DB_CONTAINER), Line("stop", rcfg.LOCALSTACK_CONTAINER),
       Line("stop", rcfg.REDIS_CONTAINER),
       Line("rm", rcfg.DB_CONTAINER), Line("rm", rcfg.LOCALSTACK_CONTAINER),
       Line("rm", rcfg.REDIS_CONTAINER),
       Line("volume rm", "flopods_db_data"), Line("volume rm", "localstack-data"),
       Line("volume rm", "redis-data"),
       Line("network rm", "flopods_network") >>
      \o [ i \in 1..Len(ExistingServices) |-> Line("compose up", ExistingServices[i]) ]
      \o << Line("sleep", "") >>
      \o (IF scriptExists THEN << Line("init-localstack.py", "") >> ELSE << >>)

\* 3 buckets, 5 tables, 2 email identities, 2 queues, then the 3 listings.
ExpectedProvisioning ==
    << "s3 mb", "s3 mb", "s3 mb",
       "dynamodb create-table", "dynamodb create-table", "dynamodb create-table",
       "dynamodb create-table", "dynamodb create-table",
       "ses verify-email-identity", "ses verify-email-identity",
       "sqs create-queue", "sqs create-queue",
       "s3 ls", "dynamodb list-tables", "sqs list-queues" >>

(***************************************************************************)
(* C1.  A response at the confirmation prompt that is not affirmative      *)
(* ("yes" in some letter case) issues no command at all - no stop, remove, *)
(* volume delete, network remove, compose-up or provisioner run - and the  *)
(* process goes from the prompt straight to exit with status 0.            *)
(***************************************************************************)
C1_CancelIssuesNothing ==
    (mode = "reset" /\ response \notin AffirmativeWords) =>
        /\ log = << >>
        /\ pcmds = << >>
        /\ ppc.at = "idle"
        /\ rpc.at \in { "load", "prompt", "exited" }
        /\ rpc.at = "exited" => exitCode = 0
        /\ rpc.at # "exited" => exitCode = -1

C1_Witness ==
    /\ rpc.at = "exited"
    /\ response = << " " >> \o yes
    /\ log = << >> /\ exitCode = 0

(***************************************************************************)
(* C2.  After confirmation the commands are issued in strict phase order:  *)
(* every command issued earlier has returned and belongs to the same or an *)
(* earlier phase, and when a command of some phase is issued every command *)
(* of all earlier phases (three stops, three removes, three volume         *)
(* deletes, the network remove, the compose-ups, the settle delay) has     *)
(* already been issued; the provisioner runs only after the settle delay.  *)
(***************************************************************************)
C2_PhaseOrder ==
    /\ \A j \in 1..Len(log) : \A i \in 1..(j - 1) :
          /\ log[i].done
          /\ Phase(log[i].op) <= Phase(log[j].op)
    /\ \A j \in 1..Len(log) :
          \A c \in { r \in Required : Phase(r.op) < Phase(log[j].op) } :
             \E i \in 1..(j - 1) : Line(log[i].op, log[i].target) = c
    /\ \A j \in 1..Len(log) :
          log[j].op = "sleep" => log[j].secs = SettleDelay
    /\ (ppc.at # "idle" \/ pcmds # << >>) =>
          /\ \E i \in 1..Len(log) : log[i].op = "sleep"
          /\ log[Len(log)].op = "init-localstack.py"

C2_Witness ==
    /\ rpc.at = "exited"
    /\ OpsOf(log) = << "stop", "stop", "stop", "rm", "rm", "rm",
                       "volume rm", "volume rm", "volume rm", "network rm",
                       "compose up", "compose up", "compose up", "sleep",
                       "init-localstack.py" >>

(***************************************************************************)
(* C3.  No outcome of an external command becomes a hard failure: neither  *)
(* script ever crashes or gets stuck, the exit status is never non-zero,   *)
(* and whatever the commands returned a confirmed reset ends having issued *)
(* the one expected sequence of commands, its provisioner having issued    *)
(* 3 bucket, 5 table, 2 email-identity and 2 queue creations followed by   *)
(* the 3 listings.  Only cancellation at the gate ends the run early.      *)
(***************************************************************************)
C3_NoHardFailure ==
    /\ rpc.at # "crashed" /\ ppc.at # "crashed"
    /\ exitCode \in { -1, 0 }
    /\ rpc.at # "exited" => ENABLED Next
    /\ rpc.at = "exited" =>
          /\ exitCode = 0
          /\ response \in AffirmativeWords =>
                /\ LinesOf(log) = ExpectedLog
                /\ \A i \in 1..Len(log) : log[i].done
                /\ scriptExists =>
                      /\ Len(runs) = 1
                      /\ OpsOf(runs[1].pcmds) = ExpectedProvisioning
          /\ LinesOf(log) # ExpectedLog => response \notin AffirmativeWords

C3_Witness ==
    /\ rpc.at = "exited"
    /\ response \in AffirmativeWords
    /\ Len(runs) = 1
    /\ skipped = 12

(***************************************************************************)
(* C4.  In both scripts a CONTAINER_RUNTIME value that is neither docker   *)
(* nor podman after lower-casing and trimming resolves to docker and a     *)
(* warning about it is printed.                                            *)
(***************************************************************************)
C4_InvalidRuntimeWarns ==
    /\ (PastGate \/ rpc.at = "prompt") /\ raw_runtime(renv) \notin { docker, podman } =>
          /\ rcfg.CONTAINER_RUNTIME = docker
          /\ Warning("db-reset", "invalid runtime", "") \in warnings
    /\ ppc.at \in { "main", "done" } /\ raw_runtime(penv) \notin { docker, podman } =>
          /\ pcfg.CONTAINER_RUNTIME = docker
          /\ Warning("init-localstack", "invalid runtime", "") \in warnings

(***************************************************************************)
(* C5.  Original statement: the sequencer proceeds past the gate only on   *)
(* the exact string "yes"; every other input cancels.                      *)
(***************************************************************************)
C5_ExactYesOnly == PastGate => (Proceeded <=> response = yes)

(***************************************************************************)
(* C5, as amended.  The sequencer proceeds past the gate exactly when the  *)
(* response is "yes" in some letter case ("yes", "YES", "Yes", ...); every *)
(* other input, padded variants such as " yes" included, cancels.          *)
(***************************************************************************)
C5_YesInAnyCase == PastGate => (Proceeded <=> response \in AffirmativeWords)

C5_Witness == Proceeded /\ response = upper(yes) /\ log # << >>

(***************************************************************************)
(* Settings whose resolution the properties look at: variable, the field   *)
(* of the provisioner's configuration it fills, and its default.           *)
(***************************************************************************)
PodTable == "AWS_DYNAMODB_POD_TABLE"
CacheTable == "AWS_DYNAMODB_CACHE_TABLE"

FileDefines(key) == env_file.exists /\ key \in DOMAIN env_file.vars

FileFirst(key, default) ==
    IF FileDefines(key) THEN env_file.vars[key]
    ELSE IF key \in DOMAIN procEnv THEN procEnv[key]
    ELSE default

EnvironmentFirst(key, default) ==
    IF key \in DOMAIN procEnv THEN procEnv[key]
    ELSE IF FileDefines(key) THEN env_file.vars[key]
    ELSE default

\* The create-table calls issued so far name exactly these tables, in order.
TablesCreated ==
    LET IsCreateTable(c) == c.op = "dynamodb create-table"
        t == SelectSeq(pcmds, IsCreateTable)
    IN  [ i \in 1..Len(t) |-> t[i].name ]

Loaded == ppc.at \in { "main", "done" }

(***************************************************************************)
(* C6.  Original statement: a setting takes the value of the located       *)
(* configuration file if the file defines it, otherwise that of the        *)
(* process environment, otherwise the default; so a table-name override in *)
(* the file names the created table whatever the environment contains.     *)
(***************************************************************************)
C6_FileFirst ==
    Loaded =>
        /\ pcfg.DYNAMODB_POD_TABLE = FileFirst(PodTable, "flopods-pods-dev")
        /\ pcfg.DYNAMODB_CACHE_TABLE = FileFirst(CacheTable, "flopods-cache-dev")
        /\ (FileDefines(PodTable) /\ Len(TablesCreated) >= 1) =>
              TablesCreated[1] = env_file.vars[PodTable]

(***************************************************************************)
(* C6, as amended.  A setting takes the value of the process environment   *)
(* if the environment defines it, otherwise that of the located            *)
(* configuration file (the project-root file, else the second candidate's) *)
(* if the file defines it, otherwise the default; so a table-name override *)
(* in the file names the created table whenever the process environment    *)
(* does not define that variable.                                          *)
(***************************************************************************)
C6_EnvironmentFirst ==
    Loaded =>
        /\ pcfg.DYNAMODB_POD_TABLE = EnvironmentFirst(PodTable, "flopods-pods-dev")
        /\ pcfg.DYNAMODB_CACHE_TABLE = EnvironmentFirst(CacheTable, "flopods-cache-dev")
        /\ (FileDefines(PodTable) /\ PodTable \notin DOMAIN procEnv
              /\ Len(TablesCreated) >= 1) =>
              /\ TablesCreated[1] = env_file.vars[PodTable]
              /\ "flopods-pods-dev" \notin { TablesCreated[i] : i \in 1..Len(TablesCreated) }

C6_Witness ==
    /\ ppc.at = "done"
    /\ fileRoot.exists /\ fileAlt.exists
    /\ PodTable \notin DOMAIN procEnv
    /\ TablesCreated[1] = "pods-root"

(***************************************************************************)
(* C7.  Against a create-if-missing emulator a second run of the           *)
(* provisioner changes nothing: while it runs and when it has ended the    *)
(* catalogue is what the first run left, it runs to its end, and its       *)
(* verification listing is the first run's.                                *)
(***************************************************************************)
C7_SecondRunChangesNothing ==
    (world = "faithful" /\ mode = "init") =>
        /\ ppc.at # "crashed"
        /\ Len(runs) >= 1 => catalogue = runs[1].catalogue
        /\ \A i \in 2..Len(runs) :
              /\ runs[i].catalogue = runs[1].catalogue
              /\ runs[i].listing = runs[1].listing
        /\ (Len(runs) >= 1 /\ ppc.at = "main" /\ ppc.i <= 12) => skipped = ppc.i - 1

C7_Witness ==
    /\ mode = "init" /\ world = "faithful"
    /\ Len(runs) = 2
    /\ Cardinality(runs[2].catalogue) >= 12
    /\ skipped = 12
    /\ Len(runs[2].listing) = 3

(***************************************************************************)
(* C8.  Original statement: with default configuration and no existing     *)
(* containers, a reset confirmed with "yes" ends with exactly the three    *)
(* containers created by compose-up, the three volumes deleted and then    *)
(* re-initialized empty, and the provisioner invoked exactly once, as the  *)
(* last action after all compose-ups and the settle delay.                 *)
(***************************************************************************)
DefaultScenario ==
    /\ rpc.at = "exited"
    /\ response = yes
    /\ rcfg = ResetConfig(EmptyEnv)
    /\ preexisting.containers = { }

CleanStack ==
    /\ containers = DefaultContainers
    /\ Len(SelectSeq(OpsOf(log), LAMBDA o : o = "compose up")) = 3
    /\ \A v \in TheVolumes :
          /\ volumes[v] = "empty"
          /\ \E i \in 1..Len(log) :
                /\ Line(log[i].op, log[i].target) = Line("volume rm", v)
                /\ \A j \in 1..Len(log) : log[j].op = "compose up" => i < j
    /\ Len(SelectSeq(OpsOf(log), LAMBDA o : o = "init-localstack.py")) = 1
    /\ log[Len(log)].op = "init-localstack.py"
    /\ log[Len(log) - 1].op = "sleep"
    /\ Len(runs) = 1

C9_MissingFilesSkipped ==
    /\ { w.subject : w \in { x \in warnings : x.kind = "skipping" } } \subseteq MissingServices
    /\ Finished =>
          /\ LET IsUp(c) == c.op = "compose up"
                 ups == SelectSeq(log, IsUp)
             IN  [ i \in 1..Len(ups) |-> ups[i].target ] = ExistingServices
          /\ { w.subject : w \in { x \in warnings : x.kind = "skipping" } } = MissingServices
          /\ \E k \in 1..Len(log) :
                /\ log[k].op = "sleep"
                /\ \A i \in 1..Len(log) : log[i].op = "compose up" => i < k
                /\ \A i \in 1..Len(log) : log[i].op = "init-localstack.py" => i > k
          /\ IF scriptExists
             THEN /\ log[Len(log)].op = "init-localstack.py"
                  /\ log[Len(log)].done
                  /\ Len(runs) = 1
                  /\ Warning("db-reset", "not found", "init-localstack.py") \notin warnings
             ELSE /\ log[Len(log)].op = "sleep"
                  /\ Len(runs) = 0
                  /\ Warning("db-reset", "not found", "init-localstack.py") \in warnings
          /\ exitCode = 0

C9_Witness ==
    /\ Finished
    /\ ExistingServices = << "redis" >>
    /\ ~scriptExists
    /\ Cardinality(warnings) = 3

====
